---- MODULE Spec2Model ----
(***************************************************************************)
(* A state-machine model of the applier tutorial plugins (tutorial2 ..     *)
(* tutorial9): the plugin's build/finish, the per-frame extraction         *)
(* systems, the preparation systems and the two render-graph nodes, run by *)
(* the host engine's schedules.                                            *)
(*                                                                         *)
(* Host-engine behaviour the plugin code relies on, as used here:          *)
(*  - RawBufferVec/BufferVec::write_buffer returns at once when the        *)
(*    staging vector is empty; otherwise it (re)allocates the device       *)
(*    buffer when needed and issues one queue write of the whole staging   *)
(*    vector.  It keeps no dirty flag.  buffer() is None until then.       *)
(*  - AsBindGroup::as_bind_group returns Err(RetryNextUpdate) when the     *)
(*    image of a #[texture] field is not among the prepared GPU images.    *)
(*  - Option::expect / unwrap and World::resource panic on None/absence.   *)
(*  - Commands queued by a system are applied before the next system set.  *)
(*  - Systems of one set with no ordering constraint run in any order.     *)
(*  - std HashMap iteration order is arbitrary.                            *)
(***************************************************************************)
EXTENDS Integers, Sequences, FiniteSets, TLC

\* ---------------------------------------------------------------- bounds
MaxEntities == 2
MaxCount == 2

\* ------------------------------------------------------------- vocabulary
None == <<>>
Some(x) == <<x>>
IsSome(o) == o # <<>>
Unwrap(o) == o[1]

Stages == {2, 4, 5, 6, 8, 9}
Handles == {"cube", "other"}
Windows == {"w1", "w2"}

Sat(n) == IF n < MaxCount THEN n + 1 ELSE MaxCount

EmptyMap == [k \in {} |-> <<>>]
Put(m, k, v) == [x \in (DOMAIN m) \cup {k} |-> IF x = k THEN v ELSE m[x]]

\* ------------------------------------------------ RawBufferVec (host type)
\* values: the CPU staging vector; buffer: the device buffer's contents once
\* allocated; written: whether the last write_buffer call issued a queue write.
RawBufferVec_new == [values |-> <<>>, buffer |-> None, written |-> FALSE]

\* An extend that also uploads what it staged.
extend_and_upload(b, items) ==
    [b EXCEPT !.values = b.values \o items, !.buffer = Some(b.values \o items)]

extend(b, items) == [b EXCEPT !.values = b.values \o items]

\* A clear that keeps the staged values.
clear_keeps(b) == b

clear(b) == [b EXCEPT !.values = <<>>]

write_buffer_dirty(b) ==
    IF b.values = <<>> \/ b.buffer = Some(b.values)
    THEN [b EXCEPT !.written = FALSE]
    ELSE [b EXCEPT !.buffer = Some(b.values), !.written = TRUE]

write_buffer(b) ==
    IF b.values = <<>>
    THEN [b EXCEPT !.written = FALSE]
    ELSE [b EXCEPT !.buffer = Some(b.values), !.written = TRUE]

\* ------------------------------------------------------ instances, to_raw
\* A Transform is [translation |-> <<x,y,z>>, rotation |-> <<x,y,z,w>>] (glam);
\* an Instance is [position |-> <<x,y,z>>, rotation |-> <<s,x,y,z>>] (cgmath).
Transforms == { [translation |-> <<1, 0, 2>>, rotation |-> <<0, 1, 0, 0>>] }

Instance_from_transform(t) ==
    [position |-> <<t.translation[1], t.translation[2], t.translation[3]>>,
     rotation |-> <<t.rotation[4], t.rotation[1], t.rotation[2], t.rotation[3]>>]

\* Matrix4::from(Quaternion) of cgmath, as four columns.
Matrix4_from_quaternion(q) ==
    LET s == q[1]
        x == q[2]
        y == q[3]
        z == q[4]
        x2 == x + x
        y2 == y + y
        z2 == z + z
        xx2 == x2 * x
        xy2 == x2 * y
        xz2 == x2 * z
        yy2 == y2 * y
        yz2 == y2 * z
        zz2 == z2 * z
        sy2 == y2 * s
        sz2 == z2 * s
        sx2 == x2 * s
    IN  << <<1 - yy2 - zz2, xy2 + sz2, xz2 - sy2, 0>>,
           <<xy2 - sz2, 1 - xx2 - zz2, yz2 + sx2, 0>>,
           <<xz2 + sy2, yz2 - sx2, 1 - xx2 - yy2, 0>>,
           <<0, 0, 0, 1>> >>

\* Matrix4::from_translation(v) * r, for r with last row (0,0,0,1).
Translate(v, r) ==
    << r[1], r[2], r[3],
       <<r[4][1] + v[1], r[4][2] + v[2], r[4][3] + v[3], r[4][4]>> >>

to_raw(i) == [model |-> Translate(i.position, Matrix4_from_quaternion(i.rotation))]

RawOf(instances) == [k \in 1..Len(instances) |-> to_raw(instances[k])]

\* ------------------------------------------------------------ mesh loader
\* A stream as the loader sees it: whether reading succeeds, whether the OBJ
\* parser succeeds, and the models it yields (flat positions / texcoords /
\* indices per model).
TriModel ==
    [positions |-> <<0, 0, 0, 1, 0, 0, 0, 1, 0>>,
     texcoords |-> <<0, 0, 1, 0, 0, 1>>,
     indices |-> <<0, 1, 2>>]

EmptyModel == [positions |-> <<>>, texcoords |-> <<>>, indices |-> <<>>]

Streams ==
    { [read_ok |-> FALSE, parse_ok |-> FALSE, models |-> <<>>],
      [read_ok |-> TRUE, parse_ok |-> FALSE, models |-> <<>>],
      [read_ok |-> TRUE, parse_ok |-> TRUE, models |-> <<EmptyModel>>],
      [read_ok |-> TRUE, parse_ok |-> TRUE, models |-> <<TriModel>>] }

Failed == [ok |-> FALSE, mesh |-> None]

Vertex_at(mesh, i) ==
    LET pos_idx == i * 3
        tex_idx == i * 2
    IN  [position |-> << mesh.positions[pos_idx + 1], mesh.positions[pos_idx + 2],
                         mesh.positions[pos_idx + 3] >>,
         tex_coords |-> IF tex_idx < Len(mesh.texcoords)
                        THEN << mesh.texcoords[tex_idx + 1], mesh.texcoords[tex_idx + 2] >>
                        ELSE <<0, 0>>]

\* A loader that converts the last model of the stream instead of the first.
load_last_model(stream) ==
    IF ~stream.read_ok \/ ~stream.parse_ok \/ stream.models = <<>>
    THEN [ok |-> FALSE, mesh |-> None]
    ELSE LET mesh == stream.models[Len(stream.models)]
         IN  [ok |-> TRUE,
              mesh |-> Some([vertices |-> [k \in 1..(Len(mesh.positions) \div 3)
                                             |-> Vertex_at(mesh, k - 1)],
                             indices |-> mesh.indices])]

load(stream) ==
    IF ~stream.read_ok THEN Failed
    ELSE IF ~stream.parse_ok THEN Failed
    ELSE IF stream.models = <<>> THEN Failed
    ELSE LET mesh == stream.models[1]
         IN  [ok |-> TRUE,
              mesh |-> Some([vertices |-> [k \in 1..(Len(mesh.positions) \div 3)
                                             |-> Vertex_at(mesh, k - 1)],
                             indices |-> mesh.indices])]

\* The streams the loader turns into a mesh.
LoadableStreams == {stream \in Streams : load(stream).ok}

prepare_asset(source_asset) ==
    [vertex_buffer |-> write_buffer(extend(RawBufferVec_new, source_asset.vertices)),
     index_buffer |-> write_buffer(extend(RawBufferVec_new, source_asset.indices))]

\* The built-in pentagon of tutorial4 .. tutorial9 (vertex ids stand for the
\* five records; the index list is the source's).
VERTICES == <<"A", "B", "C", "D", "E">>

INDICES == <<0, 1, 4, 1, 2, 4, 2, 3, 4, 0>>

VertexBuffer_from_world == extend(RawBufferVec_new, VERTICES)

IndexBuffer_from_world == extend(RawBufferVec_new, INDICES)

\* ------------------------------------------------- what each stage registers
\* The systems added to ExtractSchedule, in the order of the tuple passed to
\* add_systems.
ExtractOrder(s) ==
    CASE s = 2 -> <<"extract_mouse_position">>
      [] s = 4 -> <<"extract_mouse_position">>
      [] s = 5 -> <<"extract_mouse_position", "extract_material">>
      [] s = 6 -> <<"extract_mouse_position", "extract_material", "extract_camera">>
      [] s = 8 -> <<"extract_mouse_position", "extract_material", "extract_camera",
                    "extract_window">>
      [] s = 9 -> <<"extract_mesh_entities", "extract_mouse_position",
                    "extract_material", "extract_camera", "extract_window">>

ExtractSystems(s) == {ExtractOrder(s)[k] : k \in 1..Len(ExtractOrder(s))}

PrepareResourcesSystems(s) ==
    CASE s = 2 -> {}
      [] s = 4 -> {"prepare_buffers"}
      [] s = 5 -> {"prepare_buffers", "prepare_bind_groups"}
      [] s = 6 -> {"prepare_buffers", "prepare_bind_groups"}
      [] s = 8 -> {"prepare_depth_texture", "prepare_buffers"}
      [] s = 9 -> {"prepare_depth_texture", "prepare_buffers"}

PrepareBindGroupsSystems(s) ==
    CASE s \in {2, 4, 5, 6} -> {}
      [] s \in {8, 9} -> {"prepare_bind_groups"}

PrepareSystems(s) == PrepareResourcesSystems(s) \cup PrepareBindGroupsSystems(s)

\* Resources the render sub-app holds after build (insert_resource /
\* init_resource), per stage.
\* A build that does not insert the render-side MousePosition.
BuildResourcesWithoutMouse(s) ==
    (IF s >= 4 THEN {"VertexBuffer", "IndexBuffer"} ELSE {})
    \cup (IF s >= 6 THEN {"CameraBuffer"} ELSE {})
    \cup (IF s >= 8 THEN {"InstanceBuffer", "Instances", "ExtractedWindow"} ELSE {})
    \cup (IF s >= 9 THEN {"MeshInstances", "InstanceBuffers"} ELSE {})

BuildResources(s) ==
    {"MousePosition"}
    \cup (IF s >= 4 THEN {"VertexBuffer", "IndexBuffer"} ELSE {})
    \cup (IF s >= 6 THEN {"CameraBuffer"} ELSE {})
    \cup (IF s >= 8 THEN {"InstanceBuffer", "Instances", "ExtractedWindow"} ELSE {})
    \cup (IF s >= 9 THEN {"MeshInstances", "InstanceBuffers"} ELSE {})

\* ------------------------------------------------------------------ state
VARIABLES
    stage,            \* which tutorial's plugin is installed
    hasRenderApp,     \* whether the host has a render sub-app
    pc,               \* "build", "finish", "update", "frame", "subgraph", "panicked"
    done,             \* systems and nodes already run in the current frame
    panicked,         \* the panic message, "" while running
    graph,            \* node labels of the host's top-level render graph
    subgraph,         \* node labels of ApplierSubgraph ({} until registered)
    subgraphs,        \* labels of the sub graphs the plugin has registered
    \* main (simulation) world
    mainMouse,        \* MousePosition
    mainMaterial,     \* ApplierMaterial.image
    mainCamera,       \* Camera (a label standing for eye/target/...)
    mainWindows,      \* open windows: id -> [width, height]
    mainEntities,     \* sequence of [mesh, transform], in query order
    mainMeshes,       \* Assets<ApplierMesh>: handle -> loaded ApplierMesh
    assetLoads,       \* asset server: handle -> the stream read and the load state
    \* host side of the render world
    gpuImages,        \* images prepared on the device
    renderAssets,     \* RenderAssets<ApplierGpuMesh>: handle -> ApplierGpuMesh
    pipeline,         \* "none", "queued", "ok": state of ApplierPipeline.id in the cache
    windows,          \* ExtractedWindows: id -> [physical_width, physical_height, view]
    \* the plugin's render-world resources
    renderResources,  \* names of the resources present in the render world
    mouse,            \* MousePosition
    material,         \* ApplierMaterial.image
    preparedMaterial, \* PreparedApplierMaterial
    cameraBuffer,     \* CameraBuffer.buf
    cameraLayout,     \* CameraBuffer.layout is Some (tutorial6)
    cameraBindGroup,  \* CameraBuffer.bind_group (tutorial6) / PreparedCamera (8, 9)
    vertexBuffer,     \* VertexBuffer.0
    indexBuffer,      \* IndexBuffer.0
    instanceBuffer,   \* InstanceBuffer.0
    meshInstances,    \* MeshInstances.0: handle -> sequence of Instance
    instanceBuffers,  \* InstanceBuffers.0: handle -> RawBufferVec<InstanceRaw>
    extractedWindow,  \* ExtractedWindow
    depthTexture,     \* DepthTexture.window_props
    \* what the frame produced, and what a test double would count
    passes,           \* windows for which a render pass was begun this frame
    draws,            \* draw_indexed calls issued this frame
    surfaceResult,    \* "none" until SurfaceNode returned Ok in this frame
    subgraphRuns,     \* RunSubGraph commands queued in this frame
    executeResult,    \* "none", or what ExecuteNode::run returned in this frame
    clearColor,       \* LoadOp::Clear colour of each pass begun this frame
    frameCount,       \* frames begun so far (counted up to MaxCount)
    materialBuilds,   \* as_bind_group calls that built a material bind group
    cameraBuilds,     \* camera bind groups created
    pipelineCache,    \* PipelineCache: the descriptors queued, in order
    applierPipeline   \* the ApplierPipeline resource, None until finish

hostVars == <<stage, hasRenderApp, pc, done, panicked, graph, subgraph, subgraphs, subgraphs>>

mainVars == <<mainMouse, mainMaterial, mainCamera, mainWindows, mainEntities, mainMeshes,
              assetLoads>>

deviceVars == <<gpuImages, renderAssets, pipeline, windows>>

resourceVars ==
    <<renderResources, mouse, material, preparedMaterial, cameraBuffer, cameraLayout,
      cameraBindGroup, vertexBuffer, indexBuffer, instanceBuffer, meshInstances,
      instanceBuffers, extractedWindow, depthTexture>>

frameVars == <<passes, draws, surfaceResult, clearColor, subgraphRuns, executeResult>>

counterVars == <<frameCount, materialBuilds, cameraBuilds>>

\* Written by finish only.
pipelineVars == <<pipelineCache, applierPipeline>>

vars == <<hostVars, mainVars, deviceVars, resourceVars, frameVars, counterVars,
          pipelineVars>>

Images == {"tree.png"}

WindowSize == [width |-> 4, height |-> 2]

\* The static instance grid of tutorial8 / tutorial9 (Instances::from_world):
\* z is the outer loop and x the inner one; its length is what tutorial8
\* draws.  The rotation is kept as axis and angle, the axis before
\* normalisation.
NUM_INSTANCES_PER_ROW == 10

\* NUM_INSTANCES_PER_ROW as f32 * 0.5 on x and z.
INSTANCE_DISPLACEMENT == <<NUM_INSTANCES_PER_ROW \div 2, 0, NUM_INSTANCES_PER_ROW \div 2>>

SPACE_BETWEEN == 3

\* A grid without the displacement: cell (0,0) at the origin.
GridInstanceUncentered(space, x, z) ==
    LET position == <<space * x, 0, space * z>>
    IN  [position |-> position,
         rotation |-> IF position = <<0, 0, 0>>
                      THEN [axis |-> <<0, 1, 0>>, deg |-> 0]
                      ELSE [axis |-> position, deg |-> 45]]

\* A grid whose rotation axis is always the normalised position, without the
\* is_zero test.
GridInstanceUnguarded(space, x, z) ==
    LET position == << space * x - INSTANCE_DISPLACEMENT[1],
                       space * 0 - INSTANCE_DISPLACEMENT[2],
                       space * z - INSTANCE_DISPLACEMENT[3] >>
    IN  [position |-> position, rotation |-> [axis |-> position, deg |-> 45]]

\* The instance of cell (x,z), cells being space apart.
GridInstance(space, x, z) ==
    LET position == << space * x - INSTANCE_DISPLACEMENT[1],
                       space * 0 - INSTANCE_DISPLACEMENT[2],
                       space * z - INSTANCE_DISPLACEMENT[3] >>
    IN  [position |-> position,
         rotation |-> IF position = <<0, 0, 0>>
                      THEN [axis |-> <<0, 1, 0>>, deg |-> 0]
                      ELSE [axis |-> position, deg |-> 45]]

\* tutorial8 places the cells one unit apart (it has no SPACE_BETWEEN),
\* tutorial9 SPACE_BETWEEN apart.
Instances_from_world(s) ==
    LET space == IF s >= 9 THEN SPACE_BETWEEN ELSE 1
    IN  [k \in 1..(NUM_INSTANCES_PER_ROW * NUM_INSTANCES_PER_ROW) |->
            GridInstance(space, (k - 1) % NUM_INSTANCES_PER_ROW,
                         (k - 1) \div NUM_INSTANCES_PER_ROW)]

\* The InstanceRaw of grid instance k is written k.
StaticRaws == [k \in 1..Len(Instances_from_world(8)) |-> k]

\* The Instances resource: init_resource stores Instances::from_world when
\* build registers it, and every later use only reads it.
instances ==
    IF "Instances" \in renderResources THEN Some(Instances_from_world(stage)) ELSE None

CameraUniformOf(camera) == [view_proj |-> <<"OPENGL_TO_WGPU_MATRIX * proj * view", camera>>]

Init ==
    /\ stage \in Stages
    /\ hasRenderApp \in BOOLEAN
    /\ pc = "build"
    /\ done = {}
    /\ panicked = ""
    /\ graph \in {{}, {"CameraDriver"}}
    /\ subgraph = {}
    /\ subgraphs = {}
    /\ mainMouse = <<0, 0>>
    /\ mainMaterial = "tree.png"
    /\ mainCamera = "initial"
    /\ mainWindows \in {[w \in {"w1"} |-> WindowSize], [w \in Windows |-> WindowSize]}
    /\ mainEntities = <<>>
    /\ mainMeshes = EmptyMap
    /\ assetLoads = EmptyMap
    /\ gpuImages = {}
    /\ renderAssets = EmptyMap
    /\ pipeline = "none"
    /\ windows = EmptyMap
    /\ renderResources = {}
    /\ mouse = <<0, 0>>
    /\ material = ""
    /\ preparedMaterial = None
    /\ cameraBuffer = RawBufferVec_new
    /\ cameraLayout = FALSE
    /\ cameraBindGroup = None
    /\ vertexBuffer = RawBufferVec_new
    /\ indexBuffer = RawBufferVec_new
    /\ instanceBuffer = RawBufferVec_new
    /\ meshInstances = EmptyMap
    /\ instanceBuffers = EmptyMap
    /\ extractedWindow = [physical_width |-> 0, physical_height |-> 0]
    /\ depthTexture = None
    /\ passes = {}
    /\ draws = {}
    /\ surfaceResult = "none"
    /\ subgraphRuns = <<>>
    /\ executeResult = "none"
    /\ clearColor = EmptyMap
    /\ frameCount = 0
    /\ materialBuilds = 0
    /\ cameraBuilds = 0
    /\ pipelineCache = <<>>
    /\ applierPipeline = None

Panic(msg) ==
    /\ pc' = "panicked"
    /\ panicked' = msg

\* ---------------------------------------------------------- Plugin::build
\* RenderGraph::add_node and RenderGraph::remove_node on the top-level graph;
\* remove_node fails for a label the graph does not hold.
add_node(g, label) == g \cup {label}

\* A remove_node that succeeds whether or not the label is present.
remove_node_lenient(g, label) == [ok |-> TRUE, graph |-> g \ {label}]

\* A remove_node that reports success and leaves the node in place.
remove_node_keeps(g, label) == [ok |-> label \in g, graph |-> g]

remove_node(g, label) ==
    IF label \in g THEN [ok |-> TRUE, graph |-> g \ {label}]
    ELSE [ok |-> FALSE, graph |-> g]

Build ==
    /\ pc = "build"
    /\ UNCHANGED <<stage, hasRenderApp, done, mainVars, deviceVars, frameVars, counterVars, pipelineVars>>
    /\ UNCHANGED <<mouse, material, preparedMaterial, cameraBuffer, cameraLayout,
                   cameraBindGroup, instanceBuffer, meshInstances, instanceBuffers,
                   extractedWindow, depthTexture>>
    /\ IF ~hasRenderApp
       THEN /\ pc' = "finish"
            /\ UNCHANGED <<panicked, graph, subgraph, subgraphs, renderResources, vertexBuffer,
                           indexBuffer>>
       ELSE /\ renderResources' = BuildResources(stage)
            /\ vertexBuffer' = IF stage >= 4 THEN VertexBuffer_from_world ELSE vertexBuffer
            /\ indexBuffer' = IF stage >= 4 THEN IndexBuffer_from_world ELSE indexBuffer
            /\ LET removed == remove_node(add_node(graph, "ExecuteNode"), "CameraDriver")
               IN  /\ graph' = removed.graph
                   /\ IF removed.ok
                      THEN /\ subgraphs' = {"ApplierSubgraph"}
                           /\ subgraph' = {"SurfaceNode"}
                           /\ pc' = "finish"
                           /\ UNCHANGED panicked
                      ELSE /\ UNCHANGED <<subgraph, subgraphs>>
                           /\ Panic("failed to remove camera driver")

\* --------------------------------------------------------- Plugin::finish
\* ApplierPipeline::from_world queues the descriptor (tutorial4 onward);
\* tutorial6's also creates the camera bind-group layout.
\* ------------------------------------------------- vertex-buffer layouts
\* std::mem::size_of of the types the layouts are computed from: f32, [f32; n]
\* and the #[repr(C)] records Vertex (position and colour in tutorial4,
\* position and tex_coords afterwards) and InstanceRaw ([[f32; 4]; 4]); all
\* fields are f32 arrays, so there is no padding.
size_of_f32 == 4

size_of_array(n) == n * size_of_f32

size_of_Vertex(s) ==
    IF s = 4 THEN size_of_array(3) + size_of_array(3)
    ELSE size_of_array(3) + size_of_array(2)

size_of_InstanceRaw == 4 * size_of_array(4)

\* A Vertex::desc whose second attribute starts where a two-component first
\* attribute would end.
Vertex_desc_packed(s) ==
    [array_stride |-> size_of_Vertex(s),
     step_mode |-> "Vertex",
     attributes |->
        << [offset |-> 0, shader_location |-> 0, format |-> "Float32x3"],
           [offset |-> size_of_array(2), shader_location |-> 1,
            format |-> IF s = 4 THEN "Float32x3" ELSE "Float32x2"] >>]

Vertex_desc(s) ==
    [array_stride |-> size_of_Vertex(s),
     step_mode |-> "Vertex",
     attributes |->
        << [offset |-> 0, shader_location |-> 0, format |-> "Float32x3"],
           [offset |-> size_of_array(3), shader_location |-> 1,
            format |-> IF s = 4 THEN "Float32x3" ELSE "Float32x2"] >>]

InstanceRaw_desc ==
    [array_stride |-> size_of_InstanceRaw,
     step_mode |-> "Instance",
     attributes |->
        << [offset |-> 0, shader_location |-> 5, format |-> "Float32x4"],
           [offset |-> 16, shader_location |-> 6, format |-> "Float32x4"],
           [offset |-> 32, shader_location |-> 7, format |-> "Float32x4"],
           [offset |-> 48, shader_location |-> 8, format |-> "Float32x4"] >>]

\* The descriptor from_world queues: its label and vertex state buffers.
RenderPipelineDescriptor(s) ==
    [label |-> "applier_pipeline",
     buffers |-> IF s >= 8 THEN <<Vertex_desc(s), InstanceRaw_desc>> ELSE <<Vertex_desc(s)>>]

\* queue_render_pipeline appends the descriptor to the cache and returns its
\* index as the id; the resource keeps the id and, from tutorial5 on, the
\* material bind-group layout.
queue_render_pipeline(cache, descriptor) ==
    [cache |-> Append(cache, descriptor), id |-> Len(cache)]

\* A from_world that queues its descriptor twice and keeps the second id.
from_world_queues_twice(cache, s) ==
    LET once == queue_render_pipeline(cache, RenderPipelineDescriptor(s))
        twice == queue_render_pipeline(once.cache, RenderPipelineDescriptor(s))
    IN  [cache |-> twice.cache,
         resource |-> [id |-> twice.id,
                       material_layout |-> IF s >= 5 THEN Some("ApplierMaterial") ELSE None]]

ApplierPipeline_from_world(cache, s) ==
    LET queued == queue_render_pipeline(cache, RenderPipelineDescriptor(s))
    IN  [cache |-> queued.cache,
         resource |-> [id |-> queued.id,
                       material_layout |-> IF s >= 5 THEN Some("ApplierMaterial") ELSE None]]

Finish ==
    /\ pc = "finish"
    /\ pc' = "update"
    /\ IF hasRenderApp /\ stage >= 4
       THEN LET made == ApplierPipeline_from_world(pipelineCache, stage)
            IN  /\ pipelineCache' = made.cache
                /\ applierPipeline' = Some(made.resource)
                /\ pipeline' = "queued"
                /\ renderResources' = renderResources \cup {"ApplierPipeline"}
                /\ cameraLayout' = (stage = 6)
       ELSE UNCHANGED <<pipeline, renderResources, cameraLayout, pipelineCache,
                        applierPipeline>>
    /\ UNCHANGED <<stage, hasRenderApp, done, panicked, graph, subgraph, subgraphs, mainVars,
                   gpuImages, renderAssets, windows, frameVars, counterVars>>
    /\ UNCHANGED <<mouse, material, preparedMaterial, cameraBuffer, cameraBindGroup,
                   vertexBuffer, indexBuffer, instanceBuffer, meshInstances,
                   instanceBuffers, extractedWindow, depthTexture>>

\* ------------------------------------------------ the world outside the plugin
\* User code and the host's asset, pipeline and window machinery.  Their
\* effects reach the render world only at the next frame, so they are taken
\* between frames.
Spawn(h, t) ==
    /\ pc = "update"
    /\ stage = 9
    /\ Len(mainEntities) < MaxEntities
    /\ mainEntities' = Append(mainEntities, [mesh |-> h, transform |-> t])
    /\ UNCHANGED <<hostVars, mainMouse, mainMaterial, mainCamera, mainWindows, mainMeshes,
                   assetLoads,
                   deviceVars, resourceVars, frameVars, counterVars, pipelineVars>>

Despawn(i) ==
    /\ pc = "update"
    /\ i \in 1..Len(mainEntities)
    /\ mainEntities' = [k \in 1..(Len(mainEntities) - 1) |->
                            IF k < i THEN mainEntities[k] ELSE mainEntities[k + 1]]
    /\ UNCHANGED <<hostVars, mainMouse, mainMaterial, mainCamera, mainWindows, mainMeshes,
                   assetLoads,
                   deviceVars, resourceVars, frameVars, counterVars, pipelineVars>>

\* The asset server finishes loading a mesh: ApplierMeshLoader::load decides
\* whether an ApplierMesh is stored.
MeshLoaded(h, stream) ==
    /\ pc = "update"
    /\ stage = 9
    /\ h \notin DOMAIN assetLoads
    /\ IF load(stream).ok
       THEN /\ mainMeshes' = Put(mainMeshes, h, Unwrap(load(stream).mesh))
            /\ assetLoads' = Put(assetLoads, h, [stream |-> stream, state |-> "Loaded"])
       ELSE /\ assetLoads' = Put(assetLoads, h, [stream |-> stream, state |-> "Failed"])
            /\ UNCHANGED mainMeshes
    /\ UNCHANGED <<hostVars, mainMouse, mainMaterial, mainCamera, mainWindows, mainEntities,
                   deviceVars, resourceVars, frameVars, counterVars, pipelineVars>>

ImagePrepared(img) ==
    /\ pc = "update"
    /\ hasRenderApp
    /\ stage >= 5
    /\ img \notin gpuImages
    /\ gpuImages' = gpuImages \cup {img}
    /\ UNCHANGED <<hostVars, mainVars, renderAssets, pipeline, windows, resourceVars,
                   frameVars, counterVars, pipelineVars>>

PipelineCompiled ==
    /\ pc = "update"
    /\ pipeline = "queued"
    /\ pipeline' = "ok"
    /\ UNCHANGED <<hostVars, mainVars, gpuImages, renderAssets, windows, resourceVars,
                   frameVars, counterVars, pipelineVars>>

\* The host starts a frame: it extracts the windows and acquires (or fails to
\* acquire) each window's swap-chain view.
BeginFrame(views) ==
    /\ pc = "update"
    /\ hasRenderApp
    /\ pc' = "frame"
    /\ done' = {}
    /\ windows' = [w \in DOMAIN mainWindows |->
                      [physical_width |-> mainWindows[w].width,
                       physical_height |-> mainWindows[w].height,
                       view |-> views[w]]]
    /\ passes' = {}
    /\ draws' = {}
    /\ surfaceResult' = "none"
    /\ subgraphRuns' = <<>>
    /\ executeResult' = "none"
    /\ clearColor' = EmptyMap
    /\ frameCount' = Sat(frameCount)
    /\ UNCHANGED <<stage, hasRenderApp, panicked, graph, subgraph, subgraphs, mainVars,
                   gpuImages,
                   renderAssets, pipeline, resourceVars, materialBuilds, cameraBuilds,
                   pipelineVars>>

\* ------------------------------------------------------ extraction systems
\* The extraction systems of a stage write disjoint resources, so the order
\* the host picks among them does not show; they are taken in registration
\* order.
CanExtract(name) ==
    /\ pc = "frame"
    /\ \E k \in 1..Len(ExtractOrder(stage)) :
          /\ ExtractOrder(stage)[k] = name
          /\ \A j \in 1..(k - 1) : ExtractOrder(stage)[j] \in done
    /\ name \notin done

GroupFirstPerMesh(entities, instance_map) ==
    [h \in {entities[k].mesh : k \in 1..Len(entities)} |->
        LET first == CHOOSE k \in 1..Len(entities) :
                        /\ entities[k].mesh = h
                        /\ \A j \in 1..(k - 1) : entities[j].mesh # h
        IN  <<Instance_from_transform(entities[first].transform)>>]

RECURSIVE GroupByMesh(_, _)
GroupByMesh(entities, instance_map) ==
    IF entities = <<>> THEN instance_map
    ELSE LET mesh == Head(entities).mesh
             with_key == IF mesh \notin DOMAIN instance_map
                         THEN Put(instance_map, mesh, <<>>)
                         ELSE instance_map
             pushed == [with_key EXCEPT ![mesh] =
                           Append(@, Instance_from_transform(Head(entities).transform))]
         IN  GroupByMesh(Tail(entities), pushed)

extract_mesh_entities ==
    /\ CanExtract("extract_mesh_entities")
    /\ done' = done \cup {"extract_mesh_entities"}
    /\ meshInstances' = GroupByMesh(mainEntities, EmptyMap)
    /\ UNCHANGED <<stage, hasRenderApp, pc, panicked, graph, subgraph, subgraphs, mainVars,
                   deviceVars,
                   frameVars, counterVars, pipelineVars>>
    /\ UNCHANGED <<renderResources, mouse, material, preparedMaterial, cameraBuffer,
                   cameraLayout, cameraBindGroup, vertexBuffer, indexBuffer, instanceBuffer,
                   instanceBuffers, extractedWindow, depthTexture>>

extract_mouse_position ==
    /\ CanExtract("extract_mouse_position")
    /\ done' = done \cup {"extract_mouse_position"}
    /\ mouse' = mainMouse
    /\ UNCHANGED <<stage, hasRenderApp, pc, panicked, graph, subgraph, subgraphs, mainVars,
                   deviceVars,
                   frameVars, counterVars, pipelineVars>>
    /\ UNCHANGED <<renderResources, material, preparedMaterial, cameraBuffer,
                   cameraLayout, cameraBindGroup, vertexBuffer, indexBuffer, instanceBuffer,
                   meshInstances, instanceBuffers, extractedWindow, depthTexture>>

\* An extraction that copies the main world's material in every frame.
extract_material_every_frame ==
    /\ CanExtract("extract_material")
    /\ done' = done \cup {"extract_material"}
    /\ renderResources' = renderResources \cup {"ApplierMaterial"}
    /\ material' = mainMaterial
    /\ UNCHANGED <<stage, hasRenderApp, pc, panicked, graph, subgraph, subgraphs, mainVars,
                   deviceVars,
                   frameVars, counterVars, pipelineVars>>
    /\ UNCHANGED <<mouse, preparedMaterial, cameraBuffer,
                   cameraLayout, cameraBindGroup, vertexBuffer, indexBuffer, instanceBuffer,
                   meshInstances, instanceBuffers, extractedWindow, depthTexture>>

extract_material ==
    /\ CanExtract("extract_material")
    /\ done' = done \cup {"extract_material"}
    /\ IF "ApplierMaterial" \notin renderResources
       THEN /\ renderResources' = renderResources \cup {"ApplierMaterial"}
            /\ material' = mainMaterial
       ELSE UNCHANGED <<renderResources, material>>
    /\ UNCHANGED <<stage, hasRenderApp, pc, panicked, graph, subgraph, subgraphs, mainVars,
                   deviceVars,
                   frameVars, counterVars, pipelineVars>>
    /\ UNCHANGED <<mouse, preparedMaterial, cameraBuffer,
                   cameraLayout, cameraBindGroup, vertexBuffer, indexBuffer, instanceBuffer,
                   meshInstances, instanceBuffers, extractedWindow, depthTexture>>

extract_camera ==
    /\ CanExtract("extract_camera")
    /\ done' = done \cup {"extract_camera"}
    /\ cameraBuffer' = extend(clear(cameraBuffer), <<CameraUniformOf(mainCamera)>>)
    /\ UNCHANGED <<stage, hasRenderApp, pc, panicked, graph, subgraph, subgraphs, mainVars,
                   deviceVars,
                   frameVars, counterVars, pipelineVars>>
    /\ UNCHANGED <<renderResources, mouse, material, preparedMaterial,
                   cameraLayout, cameraBindGroup, vertexBuffer, indexBuffer, instanceBuffer,
                   meshInstances, instanceBuffers, extractedWindow, depthTexture>>

\* Single<&Window>: the system runs only when exactly one window exists.
extract_window ==
    /\ CanExtract("extract_window")
    /\ done' = done \cup {"extract_window"}
    /\ IF Cardinality(DOMAIN mainWindows) = 1
       THEN LET w == CHOOSE x \in DOMAIN mainWindows : TRUE
            IN  extractedWindow' = [physical_width |-> mainWindows[w].width,
                                    physical_height |-> mainWindows[w].height]
       ELSE UNCHANGED extractedWindow
    /\ UNCHANGED <<stage, hasRenderApp, pc, panicked, graph, subgraph, subgraphs, mainVars,
                   deviceVars,
                   frameVars, counterVars, pipelineVars>>
    /\ UNCHANGED <<renderResources, mouse, material, preparedMaterial, cameraBuffer,
                   cameraLayout, cameraBindGroup, vertexBuffer, indexBuffer, instanceBuffer,
                   meshInstances, instanceBuffers, depthTexture>>

\* ----------------------------------------------------- asset preparation
\* RenderAssetPlugin<ApplierGpuMesh>: after extraction, every newly loaded
\* ApplierMesh goes through ApplierGpuMesh::prepare_asset.
prepare_assets ==
    /\ pc = "frame"
    /\ ExtractSystems(stage) \subseteq done
    /\ "prepare_assets" \notin done
    /\ done' = done \cup {"prepare_assets"}
    /\ renderAssets' = [h \in DOMAIN mainMeshes |->
                           IF h \in DOMAIN renderAssets THEN renderAssets[h]
                           ELSE prepare_asset(mainMeshes[h])]
    /\ UNCHANGED <<stage, hasRenderApp, pc, panicked, graph, subgraph, subgraphs, mainVars,
                   gpuImages,
                   pipeline, windows, resourceVars, frameVars, counterVars, pipelineVars>>

\* ------------------------------------------------------ preparation systems
\* RenderSet::PrepareResources follows asset preparation; PrepareBindGroups
\* follows every system of PrepareResources.  Inside one set the host may
\* run the systems in any order.
CanPrepare(name) ==
    /\ pc = "frame"
    /\ "prepare_assets" \in done
    /\ name \notin done
    /\ \/ name \in PrepareResourcesSystems(stage)
       \/ /\ name \in PrepareBindGroupsSystems(stage)
          /\ PrepareResourcesSystems(stage) \subseteq done

prepare_depth_texture ==
    /\ CanPrepare("prepare_depth_texture")
    /\ done' = done \cup {"prepare_depth_texture"}
    /\ depthTexture' = Some(extractedWindow)
    /\ renderResources' = renderResources \cup {"DepthTexture"}
    /\ UNCHANGED <<stage, hasRenderApp, pc, panicked, graph, subgraph, subgraphs, mainVars,
                   deviceVars,
                   frameVars, counterVars, pipelineVars>>
    /\ UNCHANGED <<mouse, material, preparedMaterial, cameraBuffer, cameraLayout,
                   cameraBindGroup, vertexBuffer, indexBuffer, instanceBuffer,
                   meshInstances, instanceBuffers, extractedWindow>>

\* The per-mesh loop of tutorial9's prepare_buffers: one buffer per handle of
\* this frame's MeshInstances; buffers of other handles are left as they are.
UploadInstances(buffers, mesh_instances) ==
    [h \in (DOMAIN buffers) \cup (DOMAIN mesh_instances) |->
        IF h \in DOMAIN mesh_instances
        THEN LET buffer == IF h \in DOMAIN buffers THEN buffers[h] ELSE RawBufferVec_new
             IN  write_buffer(extend(clear(buffer), RawOf(mesh_instances[h])))
        ELSE buffers[h]]

Count(n, written) == IF written THEN Sat(n) ELSE n

prepare_buffers ==
    /\ CanPrepare("prepare_buffers")
    /\ done' = done \cup {"prepare_buffers"}
    /\ vertexBuffer' = write_buffer(vertexBuffer)
    /\ indexBuffer' = write_buffer(indexBuffer)
    /\ cameraBuffer' = IF stage >= 6 THEN write_buffer(cameraBuffer) ELSE cameraBuffer
    /\ instanceBuffer' = IF stage >= 8
                         THEN write_buffer(extend(clear(instanceBuffer), StaticRaws))
                         ELSE instanceBuffer
    /\ instanceBuffers' = IF stage >= 9
                          THEN UploadInstances(instanceBuffers, meshInstances)
                          ELSE instanceBuffers
    /\ UNCHANGED <<stage, hasRenderApp, pc, panicked, graph, subgraph, subgraphs, mainVars,
                   deviceVars,
                   frameVars, counterVars, pipelineVars>>
    /\ UNCHANGED <<renderResources, mouse, material, preparedMaterial, cameraLayout,
                   cameraBindGroup, meshInstances, extractedWindow, depthTexture>>

\* AsBindGroup::as_bind_group for a material with one texture: the bind group,
\* or nothing (RetryNextUpdate) while the image is not on the device.
as_bind_group(image, images) ==
    IF image \in images THEN Some([image |-> image]) ELSE None

material_rebuilt_always(resources) == TRUE

\* `if prepared_material.is_none()`
prepared_material_is_none(resources) == "PreparedApplierMaterial" \notin resources

\* `if prepared_camera.is_none()` (tutorial8, 9); `if camera.bind_group.is_none()`
\* (tutorial6).
prepared_camera_is_none(resources, bind_group) ==
    IF stage = 6 THEN bind_group = None ELSE "PreparedCamera" \notin resources

\* The message of the first panic of prepare_bind_groups, "" when it returns.
BindGroupsPanic ==
    IF prepared_material_is_none(renderResources)
       /\ as_bind_group(material, gpuImages) = None
    THEN "failed to prepare bind group"
    ELSE IF stage >= 6
            /\ prepared_camera_is_none(renderResources, cameraBindGroup)
            /\ (stage = 6 => cameraLayout)
            /\ cameraBuffer.buffer = None
    THEN "called Option::unwrap() on a None value"
    ELSE ""

prepare_bind_groups ==
    /\ CanPrepare("prepare_bind_groups")
    /\ done' = done \cup {"prepare_bind_groups"}
    /\ UNCHANGED <<stage, hasRenderApp, graph, subgraph, subgraphs, mainVars, deviceVars, frameVars,
                   frameCount, pipelineVars>>
    /\ UNCHANGED <<mouse, material, cameraBuffer, cameraLayout, vertexBuffer, indexBuffer,
                   instanceBuffer, meshInstances, instanceBuffers, extractedWindow,
                   depthTexture>>
    /\ IF BindGroupsPanic # ""
       THEN /\ Panic(BindGroupsPanic)
            /\ UNCHANGED <<renderResources, preparedMaterial, cameraBindGroup,
                           materialBuilds, cameraBuilds>>
       ELSE LET build_material == prepared_material_is_none(renderResources)
                build_camera == /\ stage >= 6
                                /\ prepared_camera_is_none(renderResources, cameraBindGroup)
                                /\ (stage = 6 => cameraLayout)
            IN  /\ UNCHANGED <<pc, panicked>>
                /\ preparedMaterial' = IF build_material
                                       THEN as_bind_group(material, gpuImages)
                                       ELSE preparedMaterial
                /\ materialBuilds' = Count(materialBuilds, build_material)
                /\ cameraBindGroup' = IF build_camera
                                      THEN Some([buffer |-> "CameraBuffer.buf"])
                                      ELSE cameraBindGroup
                /\ cameraBuilds' = Count(cameraBuilds, build_camera)
                /\ renderResources' =
                       renderResources
                       \cup (IF build_material THEN {"PreparedApplierMaterial"} ELSE {})
                       \cup (IF build_camera /\ stage >= 8 THEN {"PreparedCamera"} ELSE {})

\* ------------------------------------------------------- render-graph nodes
\* ExecuteNode::run: run_sub_graph(ApplierSubgraph, vec![], None)?; Ok(()).
\* The host runs it once all preparation systems of the frame have run.
\* RenderGraphContext::run_sub_graph: fails for a sub graph that is not
\* registered and for inputs given to a sub graph without input node (the
\* plugin adds none); otherwise queues the run for when the node has returned.
run_sub_graph_with_view(registered, name, inputs, view_entity) ==
    IF name \notin registered \/ inputs # <<>> THEN [ok |-> FALSE, command |-> None]
    ELSE [ok |-> TRUE,
          command |-> [sub_graph |-> name, inputs |-> inputs, view_entity |-> Some("view")]]

run_sub_graph(registered, name, inputs, view_entity) ==
    IF name \notin registered THEN [ok |-> FALSE, command |-> None]
    ELSE IF inputs # <<>> THEN [ok |-> FALSE, command |-> None]
    ELSE [ok |-> TRUE,
          command |-> [sub_graph |-> name, inputs |-> inputs, view_entity |-> view_entity]]

ExecuteNode ==
    /\ pc = "frame"
    /\ "prepare_assets" \in done
    /\ PrepareSystems(stage) \subseteq done
    /\ "ExecuteNode" \in graph
    /\ done' = done \cup {"ExecuteNode"}
    /\ LET result == run_sub_graph(subgraphs, "ApplierSubgraph", <<>>, None)
       IN  IF result.ok
           THEN /\ subgraphRuns' = Append(subgraphRuns, result.command)
                /\ executeResult' = "ok"
                /\ pc' = "subgraph"
                /\ UNCHANGED panicked
           ELSE /\ executeResult' = "err"
                /\ UNCHANGED subgraphRuns
                /\ Panic("Error running render graph")
    /\ UNCHANGED <<stage, hasRenderApp, graph, subgraph, subgraphs, mainVars,
                   deviceVars,
                   resourceVars, passes, draws, surfaceResult, clearColor, counterVars, pipelineVars>>

\* Resources SurfaceNode::run fetches with World::resource before anything else.
NodeResources(s) ==
    {"MousePosition"}
    \cup (IF s >= 4 THEN {"ApplierPipeline"} ELSE {})
    \cup (IF s \in {4, 5, 6, 8} THEN {"VertexBuffer", "IndexBuffer"} ELSE {})
    \cup (IF s >= 5 THEN {"PreparedApplierMaterial"} ELSE {})
    \cup (IF s = 6 THEN {"CameraBuffer"} ELSE {})
    \cup (IF s = 8 THEN {"InstanceBuffer", "Instances"} ELSE {})
    \cup (IF s = 9 THEN {"InstanceBuffers"} ELSE {})
    \cup (IF s >= 8 THEN {"PreparedCamera", "DepthTexture"} ELSE {})

pipeline_always_resolves(state) == TRUE

\* PipelineCache::get_render_pipeline(applier_pipeline.id) is Some
get_render_pipeline(state) == state = "ok"

\* The windows the loop begins a pass for: those with a swap-chain view.
every_window(ws) == DOMAIN ws

windows_with_view(ws) == {w \in DOMAIN ws : ws[w].view}

\* The buffers a draw binds: vertex, instance (tutorial8 onward), index.
\* sel is the InstanceBuffers key tutorial9 picked, unused before tutorial9.
BoundVertex(sel) == IF stage = 9 THEN renderAssets[sel].vertex_buffer ELSE vertexBuffer

BoundIndex(sel) == IF stage = 9 THEN renderAssets[sel].index_buffer ELSE indexBuffer

BoundInstance(sel) == IF stage = 9 THEN instanceBuffers[sel] ELSE instanceBuffer

InstanceCount(sel) ==
    IF stage = 9 THEN Len(instanceBuffers[sel].values)
    ELSE IF stage = 8 THEN Len(Instances_from_world(stage))
    ELSE 1

BufferMissing(sel) ==
    \/ BoundVertex(sel).buffer = None
    \/ stage >= 8 /\ BoundInstance(sel).buffer = None
    \/ BoundIndex(sel).buffer = None

DrawCall(w, sel) ==
    [window |-> w,
     mesh |-> sel,
     vertices |-> Unwrap(BoundVertex(sel).buffer),
     indices |-> Unwrap(BoundIndex(sel).buffer),
     index_count |-> Len(BoundIndex(sel).values),
     instances |-> IF stage >= 8 THEN Unwrap(BoundInstance(sel).buffer) ELSE <<>>,
     instance_count |-> InstanceCount(sel)]

RECURSIVE GCD(_, _)
GCD(a, b) == IF b = 0 THEN a ELSE GCD(b, a % b)

\* `a as f64 / b as f64` as a fraction in lowest terms; den = 0 stands for a
\* quotient that is not finite.
Div(a, b) ==
    LET g == GCD(a, b)
    IN  IF g = 0 THEN [num |-> 0, den |-> 0] ELSE [num |-> a \div g, den |-> b \div g]

main_mouse_position(render_mouse, main_mouse) == main_mouse

\* world.resource::<MousePosition>() in SurfaceNode::run: the render world's copy.
resource_MousePosition(render_mouse, main_mouse) == render_mouse

ClearColorConstantBlue(w) ==
    [r |-> Div(mouse[1], windows[w].physical_width),
     g |-> Div(mouse[2], windows[w].physical_height),
     b |-> Div(3, 10),
     a |-> Div(1, 1)]

\* The colour of LoadOp::Clear for window w.
ClearColor(w) ==
    LET mouse_position == resource_MousePosition(mouse, mainMouse)
        physical_width == windows[w].physical_width
        physical_height == windows[w].physical_height
    IN  [r |-> Div(mouse_position[1], physical_width),
         g |-> Div(mouse_position[2], physical_height),
         b |-> IF stage = 2 THEN Div(3, 10)
               ELSE Div(physical_width - mouse_position[1], physical_width),
         a |-> Div(1, 1)]

NodeReturns ==
    /\ pc' = "update"
    /\ surfaceResult' = "ok"
    /\ UNCHANGED panicked

NodePanics(msg) ==
    /\ Panic(msg)
    /\ UNCHANGED <<surfaceResult, passes, draws, clearColor>>

\* A window loop that draws every prepared handle of InstanceBuffers, not
\* only the selected one.
SurfacePasses_every_handle(sel) ==
    LET targets == windows_with_view(windows)
        ready == {h \in DOMAIN instanceBuffers \cap DOMAIN renderAssets :
                     ~BufferMissing(h)}
    IN  /\ NodeReturns
        /\ passes' = targets
        /\ clearColor' = [w \in targets |-> ClearColor(w)]
        /\ draws' = IF stage >= 4 /\ get_render_pipeline(pipeline)
                    THEN {DrawCall(w, h) : w \in targets, h \in ready}
                    ELSE {}

\* The window loop, with the buffers of key sel.
SurfacePasses(sel) ==
    LET targets == windows_with_view(windows)
    IN  IF stage >= 4 /\ targets # {} /\ get_render_pipeline(pipeline)
        THEN IF BufferMissing(sel)
             THEN NodePanics("buffer was not set")
             ELSE /\ NodeReturns
                  /\ passes' = targets
                  /\ clearColor' = [w \in targets |-> ClearColor(w)]
                  /\ draws' = {DrawCall(w, sel) : w \in targets}
        ELSE /\ NodeReturns
             /\ passes' = targets
             /\ clearColor' = [w \in targets |-> ClearColor(w)]
             /\ draws' = {}

SurfaceNode ==
    /\ pc = "subgraph"
    /\ "SurfaceNode" \in subgraph
    /\ done' = done \cup {"SurfaceNode"}
    /\ UNCHANGED <<stage, hasRenderApp, graph, subgraph, subgraphs, mainVars,
                   deviceVars,
                   resourceVars, subgraphRuns, executeResult, counterVars, pipelineVars>>
    /\ IF ~(NodeResources(stage) \subseteq renderResources)
          \/ (stage = 6 /\ cameraBindGroup = None)
       THEN NodePanics("requested resource does not exist")
       ELSE IF stage = 9
       THEN IF DOMAIN instanceBuffers = {}
            THEN /\ NodeReturns
                 /\ UNCHANGED <<passes, draws, clearColor>>
            ELSE \E sel \in DOMAIN instanceBuffers :
                    IF sel \notin DOMAIN renderAssets
                    THEN /\ NodeReturns
                         /\ UNCHANGED <<passes, draws, clearColor>>
                    ELSE SurfacePasses(sel)
       ELSE SurfacePasses("builtin")

Next ==
    \/ Build
    \/ Finish
    \/ \E h \in Handles, t \in Transforms : Spawn(h, t)
    \/ \E i \in 1..MaxEntities : Despawn(i)
    \/ \E h \in Handles, stream \in LoadableStreams : MeshLoaded(h, stream)
    \/ \E img \in Images : ImagePrepared(img)
    \/ PipelineCompiled
    \/ \E views \in [DOMAIN mainWindows -> BOOLEAN] : BeginFrame(views)
    \/ extract_mesh_entities
    \/ extract_mouse_position
    \/ extract_material
    \/ extract_camera
    \/ extract_window
    \/ prepare_assets
    \/ prepare_depth_texture
    \/ prepare_buffers
    \/ prepare_bind_groups
    \/ ExecuteNode
    \/ SurfaceNode

Spec == Init /\ [][Next]_vars

\* ------------------------------------------------------------ cursor input
\* Window sizes and cursor positions (inside the window) for the cursor runs.
WindowSizes == {[width |-> 4, height |-> 2], [width |-> 3, height |-> 3]}

CursorPositions(size) == {<<0, 0>>, <<1, 1>>, <<size.width, size.height>>}

\* The CursorMoved events one run of cursor_events reads, oldest first.
CursorEvents(size) ==
    {<<>>} \cup {<<p>> : p \in CursorPositions(size)}
           \cup {<<p, q>> : p \in CursorPositions(size), q \in CursorPositions(size)}

\* A reader that stops at the first event of the batch.
ReadEvents_first(events, current_position) ==
    IF events = <<>> THEN current_position ELSE Head(events)

RECURSIVE ReadEvents(_, _)
ReadEvents(events, current_position) ==
    IF events = <<>> THEN current_position
    ELSE ReadEvents(Tail(events), Head(events))

\* cursor_events runs in the main world's Update schedule: between frames,
\* and (pipelined rendering) while the render world prepares and draws the
\* frame it has extracted.  Extraction itself excludes it.
cursor_events(events) ==
    /\ \/ pc = "update"
       \/ pc \in {"frame", "subgraph"} /\ ExtractSystems(stage) \subseteq done
    /\ mainMouse' = ReadEvents(events, mainMouse)
    /\ UNCHANGED <<hostVars, mainMaterial, mainCamera, mainWindows, mainEntities, mainMeshes,
                   assetLoads,
                   deviceVars, resourceVars, frameVars, counterVars, pipelineVars>>

InitCursor ==
    /\ stage \in Stages
    /\ hasRenderApp = TRUE
    /\ pc = "build"
    /\ done = {}
    /\ panicked = ""
    /\ graph = {"CameraDriver"}
    /\ subgraph = {}
    /\ subgraphs = {}
    /\ mainMouse = <<0, 0>>
    /\ mainMaterial = "tree.png"
    /\ mainCamera = "initial"
    /\ mainWindows \in {[w \in {"w1"} |-> size] : size \in WindowSizes}
    /\ mainEntities = <<>>
    /\ mainMeshes = EmptyMap
    /\ assetLoads = EmptyMap
    /\ gpuImages = {}
    /\ renderAssets = EmptyMap
    /\ pipeline = "none"
    /\ windows = EmptyMap
    /\ renderResources = {}
    /\ mouse = <<0, 0>>
    /\ material = ""
    /\ preparedMaterial = None
    /\ cameraBuffer = RawBufferVec_new
    /\ cameraLayout = FALSE
    /\ cameraBindGroup = None
    /\ vertexBuffer = RawBufferVec_new
    /\ indexBuffer = RawBufferVec_new
    /\ instanceBuffer = RawBufferVec_new
    /\ meshInstances = EmptyMap
    /\ instanceBuffers = EmptyMap
    /\ extractedWindow = [physical_width |-> 0, physical_height |-> 0]
    /\ depthTexture = None
    /\ passes = {}
    /\ draws = {}
    /\ surfaceResult = "none"
    /\ subgraphRuns = <<>>
    /\ executeResult = "none"
    /\ clearColor = EmptyMap
    /\ frameCount = 0
    /\ materialBuilds = 0
    /\ cameraBuilds = 0
    /\ pipelineCache = <<>>
    /\ applierPipeline = None

NextCursor ==
    \/ Build
    \/ Finish
    \/ \E t \in Transforms : Spawn("cube", t)
    \/ \E stream \in LoadableStreams : MeshLoaded("cube", stream)
    \/ \E img \in Images : ImagePrepared(img)
    \/ PipelineCompiled
    \/ \E views \in [DOMAIN mainWindows -> BOOLEAN] : BeginFrame(views)
    \/ \E events \in CursorEvents(mainWindows["w1"]) : cursor_events(events)
    \/ extract_mesh_entities
    \/ extract_mouse_position
    \/ extract_material
    \/ extract_camera
    \/ extract_window
    \/ prepare_assets
    \/ prepare_depth_texture
    \/ prepare_buffers
    \/ prepare_bind_groups
    \/ ExecuteNode
    \/ SurfaceNode

SpecCursor == InitCursor /\ [][NextCursor]_vars

\* ------------------------------------------------- entities of two meshes
\* Transforms for the grouping runs: the one above and the identity.
SpawnTransforms ==
    Transforms \cup {[translation |-> <<0, 0, 0>>, rotation |-> <<0, 0, 0, 1>>]}

InitGroup ==
    /\ InitCursor
    /\ stage = 9
    /\ mainWindows = [w \in {"w1"} |-> WindowSize]

NextGroup ==
    \/ Build
    \/ Finish
    \/ \E h \in Handles, t \in SpawnTransforms : Spawn(h, t)
    \/ \E i \in 1..MaxEntities : Despawn(i)
    \/ \E img \in Images : ImagePrepared(img)
    \/ BeginFrame([w \in DOMAIN mainWindows |-> TRUE])
    \/ extract_mesh_entities
    \/ extract_mouse_position
    \/ extract_material
    \/ extract_camera
    \/ extract_window
    \/ prepare_assets
    \/ prepare_depth_texture
    \/ prepare_buffers
    \/ prepare_bind_groups
    \/ ExecuteNode
    \/ SurfaceNode

SpecGroup == InitGroup /\ [][NextGroup]_vars

\* ------------------------------------------------- a material that changes
\* The image handles the main world's ApplierMaterial can hold: the one
\* from_world loads and one a later write puts there.
MaterialImages == Images \cup {"stone.png"}

\* A write to the public image field of the main world's ApplierMaterial.
\* The tutorials register no system that does it; it is the input the
\* capture-once behaviour of extract_material is checked against.  It takes
\* place where the main world runs, as cursor_events does.
SetMaterialImage(img) ==
    /\ \/ pc = "update"
       \/ pc \in {"frame", "subgraph"} /\ ExtractSystems(stage) \subseteq done
    /\ stage >= 5
    /\ img # mainMaterial
    /\ mainMaterial' = img
    /\ UNCHANGED <<hostVars, mainMouse, mainCamera, mainWindows, mainEntities, mainMeshes,
                   assetLoads,
                   deviceVars, resourceVars, frameVars, counterVars, pipelineVars>>

InitMaterial ==
    /\ InitCursor
    /\ mainWindows = [w \in {"w1"} |-> WindowSize]

NextMaterial ==
    \/ Build
    \/ Finish
    \/ \E img \in MaterialImages : SetMaterialImage(img)
    \/ \E img \in MaterialImages : ImagePrepared(img)
    \/ PipelineCompiled
    \/ BeginFrame([w \in DOMAIN mainWindows |-> TRUE])
    \/ extract_mesh_entities
    \/ extract_mouse_position
    \/ extract_material
    \/ extract_camera
    \/ extract_window
    \/ prepare_assets
    \/ prepare_depth_texture
    \/ prepare_buffers
    \/ prepare_bind_groups
    \/ ExecuteNode
    \/ SurfaceNode

SpecMaterial == InitMaterial /\ [][NextMaterial]_vars

\* ------------------------------------------------ windows that come and change
\* The window layer resizes a window (Window::physical_width / physical_height
\* change) where the main world runs.
WindowResized(w, size) ==
    /\ \/ pc = "update"
       \/ pc \in {"frame", "subgraph"} /\ ExtractSystems(stage) \subseteq done
    /\ w \in DOMAIN mainWindows
    /\ size # mainWindows[w]
    /\ mainWindows' = [mainWindows EXCEPT ![w] = size]
    /\ UNCHANGED <<hostVars, mainMouse, mainMaterial, mainCamera, mainEntities, mainMeshes,
                   assetLoads,
                   deviceVars, resourceVars, frameVars, counterVars, pipelineVars>>

\* A further Window entity appears in the main world: Single<&Window> stops
\* matching.
WindowOpened(w, size) ==
    /\ \/ pc = "update"
       \/ pc \in {"frame", "subgraph"} /\ ExtractSystems(stage) \subseteq done
    /\ w \notin DOMAIN mainWindows
    /\ mainWindows' = Put(mainWindows, w, size)
    /\ UNCHANGED <<hostVars, mainMouse, mainMaterial, mainCamera, mainEntities, mainMeshes,
                   assetLoads,
                   deviceVars, resourceVars, frameVars, counterVars, pipelineVars>>

InitWindow ==
    /\ InitCursor
    /\ stage >= 8
    /\ mainWindows = [w \in {"w1"} |-> WindowSize]

NextWindow ==
    \/ Build
    \/ Finish
    \/ \E w \in Windows, size \in WindowSizes : WindowResized(w, size)
    \/ \E w \in Windows, size \in WindowSizes : WindowOpened(w, size)
    \/ \E img \in Images : ImagePrepared(img)
    \/ PipelineCompiled
    \/ BeginFrame([w \in DOMAIN mainWindows |-> TRUE])
    \/ extract_mesh_entities
    \/ extract_mouse_position
    \/ extract_material
    \/ extract_camera
    \/ extract_window
    \/ prepare_assets
    \/ prepare_depth_texture
    \/ prepare_buffers
    \/ prepare_bind_groups
    \/ ExecuteNode
    \/ SurfaceNode

SpecWindow == InitWindow /\ [][NextWindow]_vars

\* ------------------------------------------------------------- properties
\* C1: when the material's texture is not resident on the device in a frame,
\* prepare_bind_groups fails recoverably: it stores no PreparedApplierMaterial
\* and the frame does not fail (the build is retried in the next frame).
C1_TextureNotResidentIsRecoverable ==
    ("prepare_bind_groups" \in done /\ material \notin gpuImages)
        => (panicked = "" /\ preparedMaterial = None)

\* C2: when a buffer a draw references has no device buffer while the
\* pipeline is compiled, SurfaceNode skips the draw and returns success; it
\* never aborts the frame.
C2_UnreadyBufferSkipsDraw ==
    "SurfaceNode" \in done => (panicked = "" /\ surfaceResult = "ok")

\* C3: in a frame in which zero mesh entities were extracted, SurfaceNode
\* issues no draw call, whatever the earlier frames extracted and uploaded.
C3_EmptyFrameDrawsNothing ==
    (stage = 9 /\ surfaceResult = "ok" /\ meshInstances = EmptyMap) => draws = {}

\* C4: the instance buffer bound for a draw was rewritten by this frame's
\* prepare_buffers: its handle is among this frame's MeshInstances and its
\* contents are the raw transforms of the instances extracted for it.
C4_NoStaleInstanceBuffer ==
    stage = 9 =>
        \A d \in draws :
            /\ d.mesh \in DOMAIN meshInstances
            /\ d.instances = RawOf(meshInstances[d.mesh])

\* C5: each bind group is constructed at most once: a prepare_bind_groups run
\* that returns builds the material (camera) bind group exactly when
\* PreparedApplierMaterial (PreparedCamera / CameraBuffer.bind_group) is
\* absent at its start, and a bind group that is present is never rebuilt
\* or replaced by any later step.
C5_BindGroupsBuiltOnce ==
    [][ /\ materialBuilds' <= 1
        /\ cameraBuilds' <= 1
        /\ "PreparedApplierMaterial" \in renderResources
              => /\ "PreparedApplierMaterial" \in renderResources'
                 /\ preparedMaterial' = preparedMaterial
                 /\ materialBuilds' = materialBuilds
        /\ IsSome(cameraBindGroup)
              => /\ cameraBindGroup' = cameraBindGroup
                 /\ cameraBuilds' = cameraBuilds
        /\ ("prepare_bind_groups" \notin done /\ "prepare_bind_groups" \in done'
            /\ pc' # "panicked")
              => /\ "PreparedApplierMaterial" \notin renderResources
                    => /\ materialBuilds' = materialBuilds + 1
                       /\ IsSome(preparedMaterial')
                       /\ "PreparedApplierMaterial" \in renderResources'
                 /\ (stage >= 6 /\ cameraBindGroup = None)
                    => /\ cameraBuilds' = cameraBuilds + 1
                       /\ IsSome(cameraBindGroup')
      ]_vars

\* A frame after the first in which prepare_bind_groups ran with both bind
\* groups already built.
C5_Witness ==
    /\ frameCount >= 2
    /\ "prepare_bind_groups" \in done
    /\ panicked = ""
    /\ materialBuilds = 1
    /\ cameraBuilds = 1

C7_NoDrawWithoutPipeline ==
    [][ /\ (pc = "subgraph" /\ pipeline # "ok")
              => /\ draws' = {}
                 /\ surfaceResult' = "ok"
                 /\ pc' = "update"
                 /\ panicked' = ""
        /\ (draws' # {} /\ draws' # draws) => (pc = "subgraph" /\ pipeline = "ok")
      ]_vars

\* SurfaceNode began a pass in tutorial9 while the pipeline was still queued.
C7_Witness ==
    /\ stage = 9
    /\ surfaceResult = "ok"
    /\ pipeline = "queued"
    /\ passes # {}
    /\ draws = {}

C9_MeshDrawnOnceAvailable ==
    [][ (/\ pc = "subgraph"
         /\ pc' = "update"
         /\ stage = 9
         /\ pipeline = "ok"
         /\ \E w \in DOMAIN windows : windows[w].view)
          => \A h \in DOMAIN meshInstances :
                h \in DOMAIN renderAssets => \E d \in draws' : d.mesh = h
      ]_vars

\* C10: in every stage prepare_bind_groups runs only after the frame's
\* extraction systems and the frame's prepare_buffers have completed.
C10_BindGroupsAfterBuffers ==
    "prepare_bind_groups" \in done
        => (ExtractSystems(stage) \subseteq done /\ "prepare_buffers" \in done)

\* C11: the render world's MousePosition is written only by
\* extract_mouse_position, which copies the main world's value as it is at
\* the extraction point; it then stays as it is until the next extraction,
\* and SurfaceNode computes the clear colour from that copy, whatever cursor
\* events the main world has processed since.
C11_MouseCopiedAtExtraction ==
    [][ /\ ("extract_mouse_position" \notin done /\ "extract_mouse_position" \in done')
              => mouse' = mainMouse
        /\ ~("extract_mouse_position" \notin done /\ "extract_mouse_position" \in done')
              => mouse' = mouse
        /\ (pc = "subgraph" /\ pc' = "update")
              => \A w \in passes' :
                    /\ clearColor'[w].r = Div(mouse[1], windows[w].physical_width)
                    /\ clearColor'[w].g = Div(mouse[2], windows[w].physical_height)
      ]_vars

\* SurfaceNode is about to run for a window with a view, after the main
\* world moved the cursor away from the position this frame extracted.
C11_Witness ==
    /\ pc = "subgraph"
    /\ mouse # <<0, 0>>
    /\ mainMouse # mouse
    /\ \E w \in DOMAIN windows : windows[w].view

\* C19: from tutorial4 onward, for a window of W x H physical pixels (W, H > 0)
\* and a cursor position (x, y) with 0 <= x <= W and 0 <= y <= H, the clear
\* colour is red = x/W, green = y/H, blue = (W-x)/W, alpha = 1, and every
\* channel lies in [0, 1].
C19_ClearColorFormula ==
    stage >= 4 =>
        \A w \in DOMAIN clearColor :
            LET W == windows[w].physical_width
                H == windows[w].physical_height
                x == mouse[1]
                y == mouse[2]
                c == clearColor[w]
            IN  (W > 0 /\ H > 0 /\ 0 <= x /\ x <= W /\ 0 <= y /\ y <= H)
                  => /\ c.r.den > 0 /\ c.r.num * W = x * c.r.den
                     /\ c.g.den > 0 /\ c.g.num * H = y * c.g.den
                     /\ c.b.den > 0 /\ c.b.num * W = (W - x) * c.b.den
                     /\ c.a = [num |-> 1, den |-> 1]
                     /\ \A ch \in {c.r, c.g, c.b, c.a} : 0 <= ch.num /\ ch.num <= ch.den

\* A pass cleared with the cursor in the far corner (W, H): red 1, blue 0.
C19_Witness ==
    /\ stage >= 4
    /\ \E w \in DOMAIN clearColor :
          /\ mouse = <<windows[w].physical_width, windows[w].physical_height>>
          /\ clearColor[w].r = [num |-> 1, den |-> 1]
          /\ clearColor[w].g = [num |-> 1, den |-> 1]
          /\ clearColor[w].b = [num |-> 0, den |-> 1]

\* C12: after extract_mesh_entities, for every handle the MeshInstances entry
\* holds exactly the instances of the entities carrying that handle, each
\* once (position = translation, rotation = the entity's quaternion), a
\* handle no entity carries has no entry, and the total is the number N of
\* entities: nothing is lost, duplicated, misfiled or kept from the
\* previous frame.
C12_GroupingExact ==
    [][ ("extract_mesh_entities" \notin done /\ "extract_mesh_entities" \in done')
          => /\ \A h \in Handles :
                   LET OfMesh(e) == e.mesh = h
                       expected == SelectSeq(mainEntities, OfMesh)
                   IN  IF expected = <<>>
                       THEN h \notin DOMAIN meshInstances'
                       ELSE /\ h \in DOMAIN meshInstances'
                            /\ Len(meshInstances'[h]) = Len(expected)
                            /\ \A k \in 1..Len(expected) :
                                  LET t == expected[k].transform
                                      i == meshInstances'[h][k]
                                  IN  /\ i.position = t.translation
                                      /\ i.rotation = <<t.rotation[4], t.rotation[1],
                                                        t.rotation[2], t.rotation[3]>>
             /\ DOMAIN meshInstances' \subseteq Handles
      ]_vars

\* A second frame extracted one cube entity after the first frame had
\* extracted two entities, one of each mesh.
C12_Witness ==
    /\ frameCount >= 2
    /\ "extract_mesh_entities" \in done
    /\ Len(mainEntities) = 1
    /\ DOMAIN meshInstances = {"cube"}
    /\ DOMAIN instanceBuffers = Handles

\* ------------------------------------------------------ the loader's outcomes
\* Streams of every shape ApplierMeshLoader::load distinguishes: the four of
\* Streams, a parse that yields no model, and two streams of two models (a
\* model without texture coordinates before and after the triangle).
LineModel ==
    [positions |-> <<0, 0, 0, 2, 2, 2>>, texcoords |-> <<>>, indices |-> <<0, 1>>]

LoaderStreams ==
    Streams \cup
    { [read_ok |-> TRUE, parse_ok |-> TRUE, models |-> <<>>],
      [read_ok |-> TRUE, parse_ok |-> TRUE, models |-> <<TriModel, LineModel>>],
      [read_ok |-> TRUE, parse_ok |-> TRUE, models |-> <<LineModel, TriModel>>] }

InitLoader == InitGroup

NextLoader ==
    \/ Build
    \/ Finish
    \/ \E t \in Transforms : Spawn("cube", t)
    \/ \E h \in Handles, stream \in LoaderStreams : MeshLoaded(h, stream)
    \/ \E img \in Images : ImagePrepared(img)
    \/ PipelineCompiled
    \/ BeginFrame([w \in DOMAIN mainWindows |-> TRUE])
    \/ extract_mesh_entities
    \/ extract_mouse_position
    \/ extract_material
    \/ extract_camera
    \/ extract_window
    \/ prepare_assets
    \/ prepare_depth_texture
    \/ prepare_buffers
    \/ prepare_bind_groups
    \/ ExecuteNode
    \/ SurfaceNode

SpecLoader == InitLoader /\ [][NextLoader]_vars

\* C13: a mesh asset whose geometry has zero vertices yields the load
\* failure: its load state is Failed and no ApplierMesh is stored for it.
C13_ZeroVertexLoadFails ==
    \A h \in DOMAIN assetLoads :
        LET stream == assetLoads[h].stream
        IN  (stream.read_ok /\ stream.parse_ok /\ stream.models # <<>>
             /\ Len(stream.models[1].positions) \div 3 = 0)
            => (assetLoads[h].state = "Failed" /\ h \notin DOMAIN mainMeshes)

\* C14: a finished load is either Loaded, with an ApplierMesh holding one
\* vertex per position triple of the first model (texture coordinates from
\* the same model, (0,0) where it has none) and that model's indices, or
\* Failed with no mesh stored; it is Failed exactly when the read fails, the
\* parse fails or the stream has no model.
C14_LoadOutcomes ==
    \A h \in DOMAIN assetLoads :
        LET stream == assetLoads[h].stream
            first == stream.models[1]
        IN  IF stream.read_ok /\ stream.parse_ok /\ stream.models # <<>>
            THEN /\ assetLoads[h].state = "Loaded"
                 /\ h \in DOMAIN mainMeshes
                 /\ mainMeshes[h].indices = first.indices
                 /\ Len(mainMeshes[h].vertices) = Len(first.positions) \div 3
                 /\ \A k \in 1..Len(mainMeshes[h].vertices) :
                        /\ mainMeshes[h].vertices[k].position
                               = << first.positions[3 * k - 2], first.positions[3 * k - 1],
                                    first.positions[3 * k] >>
                        /\ mainMeshes[h].vertices[k].tex_coords
                               = IF 2 * k <= Len(first.texcoords)
                                 THEN << first.texcoords[2 * k - 1], first.texcoords[2 * k] >>
                                 ELSE <<0, 0>>
            ELSE /\ assetLoads[h].state = "Failed"
                 /\ h \notin DOMAIN mainMeshes

C14_Witness ==
    /\ \E h \in DOMAIN assetLoads :
           /\ assetLoads[h].state = "Loaded"
           /\ Len(assetLoads[h].stream.models) = 2
           /\ assetLoads[h].stream.models[1] = LineModel
    /\ \E h \in DOMAIN assetLoads :
           /\ assetLoads[h].state = "Failed"
           /\ assetLoads[h].stream.parse_ok

C16_SubgraphHoldsBothNodes ==
    (hasRenderApp /\ pc \in {"finish", "update", "frame", "subgraph"})
        => /\ subgraphs = {"ApplierSubgraph"}
           /\ subgraph = {"ExecuteNode", "SurfaceNode"}
           /\ "CameraDriver" \notin graph
           /\ (passes # {} \/ draws # {}) => {"ExecuteNode", "SurfaceNode"} \subseteq done

\* C16 (amended): once build has succeeded there is exactly one sub graph,
\* ApplierSubgraph, whose only node is SurfaceNode; ExecuteNode is a node of
\* the top-level render graph, the camera driver is not, and whatever a frame
\* draws is drawn after ExecuteNode and SurfaceNode ran.
C16_SubgraphHoldsSurfaceNode ==
    (hasRenderApp /\ (pc \in {"finish", "update", "frame", "subgraph"}
                      \/ (pc = "panicked" /\ panicked # "failed to remove camera driver")))
        => /\ subgraphs = {"ApplierSubgraph"}
           /\ subgraph = {"SurfaceNode"}
           /\ "ExecuteNode" \in graph
           /\ "CameraDriver" \notin graph
           /\ (passes # {} \/ draws # {}) => {"ExecuteNode", "SurfaceNode"} \subseteq done

C16_Witness ==
    /\ subgraphs = {"ApplierSubgraph"}
    /\ draws # {}
    /\ {"ExecuteNode", "SurfaceNode"} \subseteq done

\* C17: a run of ExecuteNode queues exactly one run of ApplierSubgraph, with
\* no inputs and no view entity, and returns Ok exactly when the sub graph is
\* registered; otherwise it queues nothing and returns the error.  No other
\* step queues a sub graph run.
C17_ExecuteRunsSubgraphOnce ==
    [][ IF "ExecuteNode" \notin done /\ "ExecuteNode" \in done'
        THEN /\ (executeResult' = "ok") <=> ("ApplierSubgraph" \in subgraphs)
             /\ IF executeResult' = "ok"
                THEN subgraphRuns' = << [sub_graph |-> "ApplierSubgraph",
                                         inputs |-> <<>>,
                                         view_entity |-> None] >>
                ELSE executeResult' = "err" /\ subgraphRuns' = <<>>
        ELSE subgraphRuns' = subgraphRuns \/ subgraphRuns' = <<>> ]_vars

C17_Witness ==
    /\ executeResult = "ok"
    /\ Len(subgraphRuns) = 1
    /\ "SurfaceNode" \in done

\* C18: the pipeline descriptor is queued once, by finish, which stores the
\* ApplierPipeline resource; no later step queues a descriptor or changes the
\* resource's id or material layout.
C18_PipelineQueuedOnce ==
    [][ /\ (pc = "finish" /\ hasRenderApp /\ stage >= 4)
            => /\ Len(pipelineCache') = 1
               /\ pipelineCache'[1].label = "applier_pipeline"
               /\ applierPipeline' # None
               /\ Unwrap(applierPipeline').id = 0
        /\ (pc # "finish") => (pipelineCache' = pipelineCache
                               /\ applierPipeline' = applierPipeline) ]_vars

C18_Witness ==
    /\ applierPipeline = Some([id |-> 0, material_layout |-> Some("ApplierMaterial")])
    /\ Len(pipelineCache) = 1
    /\ frameCount >= 2
    /\ draws # {}

\* C20: in tutorial9 (spacing 3.0) the Instances resource holds 100
\* instances, one for every cell (x,z) with 0 <= x < 10 and 0 <= z < 10 (the
\* one of cell (x,z) at index 10*z + x), placed at 3*(x,0,z) - (5,0,5); the
\* one of cell (0,0) is at (-5,0,-5).
C20_GridPlacement ==
    (stage = 9 /\ IsSome(instances))
        => LET grid == Unwrap(instances)
           IN  /\ Len(grid) = 100
               /\ \A x \in 0..9, z \in 0..9 :
                      grid[10 * z + x + 1].position = <<3 * x - 5, 0, 3 * z - 5>>
               /\ grid[1].position = <<-5, 0, -5>>

C20_Witness ==
    /\ IsSome(instances)
    /\ stage = 9
    /\ frameCount >= 1

C22_RenderMouseDefault ==
    /\ (hasRenderApp /\ pc # "build") => "MousePosition" \in renderResources
    /\ (pc \in {"frame", "subgraph"}) => "MousePosition" \in renderResources
    /\ panicked # "requested resource does not exist"
    /\ mouse = <<0, 0>>
    /\ \A w \in DOMAIN clearColor :
          /\ clearColor[w].r = Div(0, windows[w].physical_width)
          /\ clearColor[w].g = Div(0, windows[w].physical_height)

C22_Witness ==
    /\ frameCount = 1
    /\ "SurfaceNode" \in done
    /\ "extract_mouse_position" \in done
    /\ mouse = <<0, 0>>
    /\ \E w \in DOMAIN clearColor : clearColor[w].r.num = 0 /\ clearColor[w].g.num = 0

\* What C23 is about.  DeviceContents: the device buffers behind the
\* render-side buffer resources and the bind groups; StagedContents: the
\* resources' CPU-side vectors; a frame step is named by the system or node
\* it adds to done.
DeviceContents ==
    << vertexBuffer.buffer, indexBuffer.buffer, instanceBuffer.buffer, cameraBuffer.buffer,
       [h \in DOMAIN instanceBuffers |-> instanceBuffers[h].buffer],
       preparedMaterial, cameraBindGroup,
       renderResources \cap {"PreparedApplierMaterial", "PreparedCamera"} >>

StagedContents ==
    << vertexBuffer.values, indexBuffer.values, instanceBuffer.values,
       [h \in DOMAIN instanceBuffers |-> instanceBuffers[h].values] >>

ExtractOrNodeStep ==
    (done' \ done) \cap (ExtractSystems(stage) \cup {"ExecuteNode", "SurfaceNode"}) # {}

PrepareStep ==
    (done' \ done) \cap PrepareSystems(stage) # {}

\* C23 (as stated): no extraction system and no graph node changes the vertex,
\* index, instance or camera buffer, the per-mesh instance buffers or the
\* bind groups.
C23_BuffersUntouchedOutsidePrepare ==
    [][ ExtractOrNodeStep
            => /\ DeviceContents' = DeviceContents
               /\ StagedContents' = StagedContents
               /\ cameraBuffer' = cameraBuffer ]_vars

\* C23 (amended): the device buffers and the bind groups change only in a
\* preparation system; extraction systems and graph nodes leave them and the
\* staging vectors of the vertex, index and instance buffers unchanged, but
\* extract_camera rewrites the staging vector of the camera buffer.
C23_DeviceWritesOnlyInPrepare ==
    [][ /\ ExtractOrNodeStep
            => /\ DeviceContents' = DeviceContents
               /\ StagedContents' = StagedContents
               /\ (cameraBuffer' # cameraBuffer)
                     => /\ "extract_camera" \in done' \ done
                        /\ cameraBuffer'.values = <<CameraUniformOf(mainCamera)>>
        /\ (DeviceContents' # DeviceContents) => PrepareStep ]_vars

C23_Witness ==
    /\ "extract_camera" \in done
    /\ "prepare_buffers" \notin done
    /\ cameraBuffer.values # <<>>
    /\ cameraBuffer.buffer = None

\* C24: prepare_buffers leaves, for every handle of this frame's
\* MeshInstances, a buffer whose staged and uploaded contents are exactly the
\* raw transforms of that handle's instances, in order and as many (nothing
\* kept from earlier frames); the buffers of all other handles are as before,
\* and no buffer is dropped.
C24_OneBufferPerHandle ==
    [][ (stage = 9 /\ "prepare_buffers" \notin done /\ "prepare_buffers" \in done')
          => /\ DOMAIN instanceBuffers' = DOMAIN instanceBuffers \cup DOMAIN meshInstances
             /\ \A h \in DOMAIN meshInstances :
                   /\ Len(instanceBuffers'[h].values) = Len(meshInstances[h])
                   /\ \A k \in 1..Len(meshInstances[h]) :
                         instanceBuffers'[h].values[k] = to_raw(meshInstances[h][k])
                   /\ instanceBuffers'[h].buffer = Some(instanceBuffers'[h].values)
             /\ \A h \in DOMAIN instanceBuffers \ DOMAIN meshInstances :
                   instanceBuffers'[h] = instanceBuffers[h]
      ]_vars

\* A second frame holding one instance of each of two meshes.
C24_Witness ==
    /\ frameCount >= 2
    /\ "prepare_buffers" \in done
    /\ Cardinality(DOMAIN meshInstances) = 2
    /\ \A h \in DOMAIN meshInstances : Len(instanceBuffers[h].values) = 1

\* The bytes a vertex format takes, and whether the attributes of a layout,
\* in the order given, start at 0, follow one another without gap or overlap
\* and end at the stride.
FormatSize(format) ==
    CASE format = "Float32x2" -> 8
      [] format = "Float32x3" -> 12
      [] format = "Float32x4" -> 16

Tiles(layout) ==
    LET a == layout.attributes
    IN  /\ a[1].offset = 0
        /\ \A k \in 1..(Len(a) - 1) : a[k + 1].offset = a[k].offset + FormatSize(a[k].format)
        /\ a[Len(a)].offset + FormatSize(a[Len(a)].format) = layout.array_stride

\* C25: in the queued pipeline descriptor (tutorial5 onward) the Vertex layout
\* has stride 20, position as Float32x3 at offset 0 and tex_coords as
\* Float32x2 at offset 12; (tutorial8 onward) the InstanceRaw layout has
\* stride 64 and four Float32x4 rows at offsets 0, 16, 32, 48 on locations 5
\* to 8; in both the attributes tile the stride exactly.
C25_LayoutsMatchRecords ==
    (stage >= 5 /\ pipelineCache # <<>>)
        => LET buffers == pipelineCache[1].buffers
           IN  /\ buffers[1].array_stride = 20
               /\ buffers[1].attributes =
                     << [offset |-> 0, shader_location |-> 0, format |-> "Float32x3"],
                        [offset |-> 12, shader_location |-> 1, format |-> "Float32x2"] >>
               /\ Tiles(buffers[1])
               /\ Len(buffers) = IF stage >= 8 THEN 2 ELSE 1
               /\ stage >= 8
                     => /\ buffers[2].array_stride = 64
                        /\ Len(buffers[2].attributes) = 4
                        /\ \A k \in 1..4 :
                              buffers[2].attributes[k] =
                                 [offset |-> 16 * (k - 1), shader_location |-> 4 + k,
                                  format |-> "Float32x4"]
                        /\ Tiles(buffers[2])

C25_Witness ==
    /\ stage = 9
    /\ pipelineCache # <<>>
    /\ Len(pipelineCache[1].buffers) = 2
    /\ pipeline = "ok"
    /\ draws # {}

\* C26: in tutorial6 the camera bind group is created only from an uploaded
\* camera buffer, whichever of prepare_buffers and prepare_bind_groups runs
\* first: prepare_bind_groups never unwraps an absent device buffer, a camera
\* bind group exists only with the device buffer, and SurfaceNode runs only
\* with the bind group set.
C26_CameraBindGroupFromUploadedBuffer ==
    stage = 6
        => /\ panicked # "called Option::unwrap() on a None value"
           /\ IsSome(cameraBindGroup) => IsSome(cameraBuffer.buffer)
           /\ ("SurfaceNode" \in done) => IsSome(cameraBindGroup)

\* C27: in tutorial9 the draws of a frame all belong to one handle of
\* InstanceBuffers whose mesh asset is prepared, with one draw per window
\* that has a pass and the instance count of that handle's buffer; with two
\* or more handles in InstanceBuffers at least one handle, and with k handles
\* k-1 of them, has no draw in the frame.
C27_OneHandleDrawnPerFrame ==
    stage = 9
        => /\ \A d \in draws :
                /\ d.mesh \in DOMAIN instanceBuffers \cap DOMAIN renderAssets
                /\ d.window \in passes
                /\ d.instance_count = Len(instanceBuffers[d.mesh].values)
           /\ \A d, e \in draws : d.mesh = e.mesh /\ (d.window = e.window => d = e)
           /\ Cardinality({h \in DOMAIN instanceBuffers :
                              \A d \in draws : d.mesh # h})
                 >= Cardinality(DOMAIN instanceBuffers) - 1

\* SurfaceNode has returned in a frame with two handles in InstanceBuffers,
\* a compiled pipeline and a window to draw into: one handle's mesh is
\* prepared and the other's is not, the unprepared one was selected and
\* nothing was drawn.
C27_Witness ==
    /\ stage = 9
    /\ pc = "update"
    /\ "SurfaceNode" \in done
    /\ surfaceResult = "ok"
    /\ Cardinality(DOMAIN instanceBuffers) >= 2
    /\ DOMAIN instanceBuffers \cap DOMAIN renderAssets # {}
    /\ ~(DOMAIN instanceBuffers \subseteq DOMAIN renderAssets)
    /\ get_render_pipeline(pipeline)
    /\ windows_with_view(windows) # {}
    /\ passes = {}
    /\ draws = {}

\* SurfaceNode has returned in a frame with two handles in InstanceBuffers
\* and has drawn the instances of one of them.
C27_WitnessDrawn ==
    /\ stage = 9
    /\ "SurfaceNode" \in done
    /\ Cardinality(DOMAIN instanceBuffers) >= 2
    /\ draws # {}

\* C28: the render world's ApplierMaterial is inserted by extract_material
\* only when it is absent, with the image handle the main world's material
\* holds at that extraction; once present it is never removed and never
\* written again, whatever the main world's material becomes.
C28_MaterialCapturedOnce ==
    [][ /\ "ApplierMaterial" \in renderResources
              => /\ "ApplierMaterial" \in renderResources'
                 /\ material' = material
        /\ ("ApplierMaterial" \notin renderResources /\ "ApplierMaterial" \in renderResources')
              => /\ "extract_material" \notin done /\ "extract_material" \in done'
                 /\ material' = mainMaterial
        /\ "ApplierMaterial" \notin renderResources' => material' = material
      ]_vars

\* The main world's material was given another image after the first
\* extraction, and extract_material has run again in a later frame, before
\* the main world could run: the render world still holds the first handle.
C28_Witness ==
    /\ pc = "frame"
    /\ "extract_material" \in done
    /\ ~(ExtractSystems(stage) \subseteq done)
    /\ "ApplierMaterial" \in renderResources
    /\ material = "tree.png"
    /\ mainMaterial = "stone.png"

\* C29: from tutorial8 on, in every frame in which SurfaceNode has run the
\* DepthTexture exists, extract_window has written ExtractedWindow in this
\* frame, and the dimensions DepthTexture records are those of a window as
\* extracted in this frame.
C29_DepthTextureFromThisFrame ==
    (stage >= 8 /\ "SurfaceNode" \in done)
        => /\ IsSome(depthTexture)
           /\ \E w \in DOMAIN windows :
                 /\ Unwrap(depthTexture).physical_width = windows[w].physical_width
                 /\ Unwrap(depthTexture).physical_height = windows[w].physical_height

\* SurfaceNode has run in a frame with two windows, both 3x3, with a
\* DepthTexture that records the 4x2 of an earlier frame's only window.
C29_StaleDepthTexture ==
    /\ stage >= 8
    /\ "SurfaceNode" \in done
    /\ surfaceResult = "ok"
    /\ \A w \in DOMAIN windows :
          windows[w].physical_width = 3 /\ windows[w].physical_height = 3
    /\ depthTexture = Some([physical_width |-> 4, physical_height |-> 2])

\* With exactly one window the DepthTexture of a frame in which SurfaceNode
\* has run records that window's dimensions as extracted in the frame.
C29_SingleWindowDepthTexture ==
    (stage >= 8 /\ "SurfaceNode" \in done /\ Cardinality(DOMAIN windows) = 1)
        => \A w \in DOMAIN windows :
              depthTexture = Some([physical_width |-> windows[w].physical_width,
                                   physical_height |-> windows[w].physical_height])

\* C30: a run of cursor_events over a batch of CursorMoved events leaves
\* the main world's MousePosition at the position of the batch's last event,
\* and leaves it as it was when the batch is empty; nothing else in the main
\* or render world moves it.
C30_LastEventWins ==
    [][ /\ \A events \in CursorEvents(mainWindows["w1"]) :
              cursor_events(events)
                  => mainMouse' = IF events = <<>> THEN mainMouse
                                  ELSE events[Len(events)]
        /\ mainMouse' # mainMouse
              => \E events \in CursorEvents(mainWindows["w1"]) :
                    events # <<>> /\ cursor_events(events)
      ]_vars

\* cursor_events has processed batches ending in the far corner of the
\* window and the main world's MousePosition is there, ahead of the render
\* world's copy.
C30_Witness ==
    /\ mainMouse = <<mainWindows["w1"].width, mainWindows["w1"].height>>
    /\ mouse = <<1, 1>>
    /\ pc = "frame"

====
